---- MODULE Spec2Model ----
(***************************************************************************)
(* NexoShop: the cart / checkout / fulfilment consistency model.           *)
(*                                                                         *)
(* The store (the hosted database) is modelled by its tables and the       *)
(* constraints of the migration; every `await supabase...` is one step in  *)
(* which the store executes the request (or rejects it) and the handler    *)
(* runs on to its next await.  The query builder resolves to               *)
(* {data, error} and never rejects, so a handler sees a failure only where *)
(* it looks at `error`.  Handlers read the React state (`items`, `cartId`, *)
(* `user`) of the render that created them: each running handler carries   *)
(* the values it captured when it was called.                              *)
(* Prices are held in cents (DECIMAL(10,2)).                               *)
(*                                                                         *)
(* SpecCart      the cart handlers of one tab, every request executed      *)
(* SpecCartFault the same with one request that fails                      *)
(* SpecCheckout  the Checkout page over a loaded cart, one failing request *)
(* SpecAdmin     order fulfilment by an admin, one failing request         *)
(***************************************************************************)
EXTENDS Integers, FiniteSets, Sequences, TLC

\* ---------------------------------------------------------------- bounds
MaxOps == 2        \* user-initiated cart operations over all tabs
MaxQty == 1        \* largest quantity passed to addItem
MaxOtherWrites == 1   \* writes by other sessions while an order is reviewed

\* ------------------------------------------------------------ vocabulary
NULL == "null"
NoId == 0
Clients == {1}
Slots == {1, 2}        \* the handlers one tab has in flight at once
ProductIds == {"A", "B"}
UserIds == {"u1"}
SessionToken == "tok-1"
EarlierCart == 100     \* the id of a cart row of an earlier visit; new rows get 1, 2, ...
Qtys == 1..MaxQty
NewQtys == (0 - 1)..(MaxQty + 1)   \* quantities passed to updateQuantity

VARIABLES
    \* the store
    carts,          \* rows [id, user_id, session_id]
    cart_items,     \* rows [id, cart_id, product_id, quantity]
    products,       \* product id -> [name, price, stock]
    orders,         \* rows [id, user_id, total, status, shipping_address, shipping_city,
                    \*       payment_method, notes]
    order_items,    \* rows [id, order_id, product_id, product_name, product_price,
                    \*       quantity, subtotal]
    nextId,         \* next fresh row id (gen_random_uuid)
    user_roles,     \* the user ids that hold the role 'admin'
    categories,     \* the names of the stored categories
    faultBudget,    \* requests that may still fail for a reason outside the model (network, session)
    \* the browser
    localStorage,   \* the value under 'cart_session_id' (NULL if absent)
    \* per tab (CartProvider)
    mounted,        \* tab -> BOOLEAN
    user,           \* tab -> the signed-in user id or NULL (useAuth)
    items,          \* tab -> the local items list
    cartId,         \* tab -> the local cart id or NoId
    loading,        \* tab -> BOOLEAN
    tasks,          \* tab -> slot -> the handler running in it
    \* per tab (the Checkout page)
    page,           \* tab -> "shop" or "checkout"
    step,           \* tab -> CheckoutStep
    processing,     \* tab -> BOOLEAN
    shippingData,   \* tab -> [fullName, address, city, phone, notes]
    paymentMethod,  \* tab -> "card" or "cash"
    cardData,       \* tab -> [number, expiry, cvv, name]
    checkout,       \* tab -> the processOrder run in flight
    toast,          \* tab -> the toast the Checkout page raised last
    \* the Admin page (one admin session)
    isAdmin,        \* `isAdmin` of useAuth, as the session read it when it signed in
    adminMounted,   \* BOOLEAN
    adminLoading,   \* `loading` of Admin
    adminLoads,     \* loadData calls in flight
    adminOrders,    \* `orders` of Admin: the rows loaded last, each with its order_items
    updatingOrderId,
    adminTasks,     \* slot -> the handleCompleteOrder run in it
    \* observation
    ops,            \* user-initiated operations started so far
    notices,        \* the cart handlers that returned, in order, each with the notice it raised
    lastGoc,        \* tab -> the last getOrCreateCart call that returned, and the one before it
    placed          \* tab -> the order and the cart of the last processOrder run that reached success

storeVars == <<carts, cart_items, products, nextId>>
orderVars == <<orders, order_items>>
netVars == <<faultBudget>>
cartVars == <<localStorage, mounted, user, items, cartId, loading, tasks>>
formVars == <<shippingData, paymentMethod, cardData>>
checkoutVars == <<page, step, processing, formVars, checkout, toast, placed>>
roleVars == <<user_roles, categories, isAdmin>>
adminVars == <<roleVars, adminMounted, adminLoading, adminLoads, adminOrders, updatingOrderId,
               adminTasks>>
obsVars == <<ops, notices, lastGoc>>
vars == <<storeVars, orderVars, netVars, cartVars, checkoutVars, adminVars, obsVars>>

\* ------------------------------------------------------------- helpers
Max(a, b) == IF a >= b THEN a ELSE b

RECURSIVE SumOver(_, _)
\* sum of f[x] over a finite set S (Array.prototype.reduce with +)
SumOver(S, f) ==
    IF S = {} THEN 0
    ELSE LET x == CHOOSE y \in S : TRUE IN f[x] + SumOver(S \ {x}, f)

\* ------------------------------------------------------ the store: carts
\* a lookup that also accepts the browser's anonymous cart for a user
SelectCartsOfBrowser(rows, u, sessionId) ==
    {r \in rows : r.session_id = sessionId \/ (u # NULL /\ r.user_id = u)}

\* carts.select('id').eq('user_id', user.id)  /
\* carts.select('id').eq('session_id', sessionId).is('user_id', null)
SelectCarts(rows, u, sessionId) ==
    IF u # NULL
    THEN {r \in rows : r.user_id = u}
    ELSE {r \in rows : r.session_id = sessionId /\ r.user_id = NULL}

\* .maybeSingle(): the row when exactly one matches; data is null when none
\* matches and also when several match (then with an error the caller drops)
MaybeSingle(rows) ==
    IF Cardinality(rows) = 1 THEN (CHOOSE r \in rows : TRUE).id ELSE NoId

NewCartRowBoth(id, u, sessionId) ==
    [id |-> id, user_id |-> u, session_id |-> sessionId]

\* the row getOrCreateCart inserts
NewCartRow(id, u, sessionId) ==
    IF u # NULL
    THEN [id |-> id, user_id |-> u, session_id |-> NULL]
    ELSE [id |-> id, user_id |-> NULL, session_id |-> sessionId]

\* CONSTRAINT cart_user_or_session and the INSERT policies of carts, for a
\* request made with the session of `uid`
CartInsertAllowed(row, uid) ==
    /\ (row.user_id # NULL \/ row.session_id # NULL)
    /\ \/ (uid # NULL /\ row.user_id = uid)
       \/ (row.user_id = NULL /\ row.session_id # NULL)

\* the USING clause of "Users can manage own cart", for a request of `uid`
CartVisible(row, uid) ==
    \/ (uid # NULL /\ row.user_id = uid)
    \/ (row.user_id = NULL /\ row.session_id # NULL)

\* ------------------------------------------------- the store: cart_items
\* the USING clause of "Users can manage own cart items", for a request of `uid`
CartItemVisible(cid, uid) ==
    \E c \in carts :
        /\ c.id = cid
        /\ ((uid # NULL /\ c.user_id = uid) \/ c.session_id # NULL)

UniqueCartProductMissing(rows, row) == TRUE

\* UNIQUE (cart_id, product_id)
UniqueCartProduct(rows, row) ==
    \A r \in rows : ~(r.cart_id = row.cart_id /\ r.product_id = row.product_id)

\* CHECK (quantity > 0)
QuantityCheck(q) == q > 0

\* the constraints an INSERT into cart_items must meet
CartItemInsertAllowed(row, uid) ==
    /\ CartItemVisible(row.cart_id, uid)
    /\ row.product_id \in DOMAIN products
    /\ QuantityCheck(row.quantity)
    /\ UniqueCartProduct(cart_items, row)

SetQuantityAdditive(rows, itemId, q) ==
    {IF r.id = itemId THEN [r EXCEPT !.quantity = r.quantity + q] ELSE r : r \in rows}

\* cart_items.update({ quantity }).eq('id', itemId); also the local
\* items.map(item => item.id === itemId ? { ...item, quantity } : item)
SetQuantity(rows, itemId, q) ==
    {IF r.id = itemId THEN [r EXCEPT !.quantity = q] ELSE r : r \in rows}

\* cart_items.delete().eq('id', itemId); also the local items.filter(...)
DeleteById(rows, itemId) == {r \in rows : r.id # itemId}

\* cart_items.delete().eq('cart_id', cartId)
DeleteByCart(rows, cid) == {r \in rows : r.cart_id # cid}

\* cart_items.select('*, products(*)').eq('cart_id', id)
SelectItems(cid) ==
    {[id |-> r.id, cart_id |-> r.cart_id, product_id |-> r.product_id,
      quantity |-> r.quantity, products |-> products[r.product_id]] :
        r \in {x \in cart_items : x.cart_id = cid}}

\* items.find(item => item.product_id === product.id): its id, or NoId
FindItem(its, p) ==
    IF \E i \in its : i.product_id = p
    THEN (CHOOSE i \in its : i.product_id = p).id
    ELSE NoId

ItemQuantity(its, itemId) == (CHOOSE i \in its : i.id = itemId).quantity

\* const total = items.reduce((sum, item) => sum + price * item.quantity, 0)
Total(its) ==
    SumOver(its, [i \in its |-> i.products.price * i.quantity])

\* getSessionId: the stored token, generated and stored when absent
GetSessionId(ls) == IF ls = NULL THEN SessionToken ELSE ls

\* the owner key a cart is looked up by
OwnerKey(u, sessionId) == IF u # NULL THEN u ELSE sessionId

\* ------------------------------------------------------ running handlers
Idle ==
    [kind |-> "idle", pc |-> "-", in |-> "-", items |-> {}, cartId |-> NoId,
     user |-> NULL, prod |-> NULL, qty |-> 0, newQty |-> 0, itemId |-> NoId,
     id |-> NoId, prevId |-> NoId]

NoGoc == [owner |-> NULL, id |-> NoId, prevId |-> NoId, created |-> FALSE]

FreeSlot(c) ==
    IF \E s \in Slots : tasks[c][s].kind = "idle"
    THEN CHOOSE s \in Slots :
            /\ tasks[c][s].kind = "idle"
            /\ \A t \in Slots : tasks[c][t].kind = "idle" => s <= t
    ELSE 0

Quiet == \A c \in Clients : \A s \in Slots : tasks[c][s].kind = "idle"

\* the id of the last call of this tab that returned for the same owner
PrevGoc(c, u) ==
    IF lastGoc[c].owner = OwnerKey(u, GetSessionId(localStorage))
    THEN lastGoc[c].id ELSE NoId

RemovesItemStrict(q) == q < 0

\* if (quantity <= 0) { await removeItem(itemId); return; }
RemovesItem(q) == q <= 0

\* ------------------------------------------------- the store: orders
\* the WITH CHECK of "Users can create own orders", for a request of `uid`
OrderInsertAllowed(row, uid) == uid # NULL /\ row.user_id = uid

\* the WITH CHECK of "Users can create order items for own orders" and the
\* foreign keys of order_items, for a request of `uid`
OrderItemInsertAllowed(row, uid) ==
    /\ \E o \in orders : o.id = row.order_id /\ uid # NULL /\ o.user_id = uid
    /\ row.product_id \in DOMAIN products

\* the order_items rows stored for an order
ItemsOfOrder(orderId) == {r \in order_items : r.order_id = orderId}

\* ---------------------------------------------------- the Checkout page
Texts == {"", " ", "x"}        \* what is typed into a free-text field: nothing, a space, text
CardInputs == {"", "12", "ab"} \* what is typed into a card field: nothing, digits, letters

\* value.replace(/\D/g, '') on the inputs above (formatCardNumber, formatExpiry
\* and the cvv handler keep the digits only)
OnlyDigits(v) == IF v = "ab" THEN "" ELSE v

\* value.toUpperCase()
ToUpperCase(v) == IF v = "ab" THEN "AB" ELSE v

\* what the onChange handler of a card field stores
CardValue(f, v) == IF f = "name" THEN ToUpperCase(v) ELSE OnlyDigits(v)

ShippingFields == {"fullName", "address", "city", "phone", "notes"}
RequiredFields == {"fullName", "address", "city"}   \* the inputs marked `required`

\* what is typed into a shipping field (a space only where it matters)
ShippingInputs(f) == IF f \in RequiredFields THEN Texts ELSE Texts \ {" "}
CardFields == {"number", "expiry", "cvv", "name"}
PaymentMethods == {"card", "cash"}

EmptyShipping ==
    [fullName |-> "", address |-> "", city |-> "", phone |-> "", notes |-> ""]

EmptyCard == [number |-> "", expiry |-> "", cvv |-> "", name |-> ""]

\* no processOrder run in flight
NoCheckout ==
    [pc |-> "idle", items |-> {}, rest |-> {}, total |-> 0, user |-> NULL,
     cartId |-> NoId, orderId |-> NoId, address |-> "", city |-> "",
     method |-> "card", notes |-> "", failed |-> FALSE]

NoPlaced == [orderId |-> NoId, cartId |-> NoId]

CheckoutShownAnyCart(c) ==
    /\ page[c] = "checkout"
    /\ user[c] # NULL

CheckoutShownCartOnly(c) ==
    /\ page[c] = "checkout"
    /\ user[c] # NULL
    /\ items[c] # {}

\* the page renders its steps: neither guard redirects
CheckoutShown(c) ==
    /\ page[c] = "checkout"
    /\ user[c] # NULL
    /\ ~(items[c] = {} /\ step[c] # "success")

ShippingMissingNoCity(d) == d.fullName = "" \/ d.address = ""

\* if (!fullName || !address || !city)
ShippingMissing(d) == d.fullName = "" \/ d.address = "" \/ d.city = ""

CardMissingNoCvv(m, d) ==
    m = "card" /\ (d.number = "" \/ d.expiry = "" \/ d.name = "")

\* if (paymentMethod === 'card') if (!number || !expiry || !cvv || !name)
CardMissing(m, d) ==
    m = "card" /\ (d.number = "" \/ d.expiry = "" \/ d.cvv = "" \/ d.name = "")

InitCheckoutPage ==
    /\ page = [c \in Clients |-> "shop"]
    /\ step = [c \in Clients |-> "shipping"]
    /\ processing = [c \in Clients |-> FALSE]
    /\ shippingData = [c \in Clients |-> EmptyShipping]
    /\ paymentMethod = [c \in Clients |-> "card"]
    /\ cardData = [c \in Clients |-> EmptyCard]
    /\ checkout = [c \in Clients |-> NoCheckout]
    /\ toast = [c \in Clients |-> "none"]
    /\ placed = [c \in Clients |-> NoPlaced]

\* ------------------------------------------------------- the Admin page
AdminId == "admin1"
Admins == {AdminId}

IsAdminAnyone(uid) == TRUE

\* is_admin(), for a request of `uid`
IsAdmin(uid) == uid \in user_roles

\* the handlers of Admin that end with loadData(): loadData up to its await,
\* when the handler got that far
ReloadIf(reached) ==
    IF reached
    THEN adminLoading' = TRUE /\ adminLoads' = adminLoads + 1
    ELSE UNCHANGED <<adminLoading, adminLoads>>

\* no handleCompleteOrder run in the slot
NoRun ==
    [pc |-> "idle", orderId |-> NoId, rest |-> {}, item |-> NULL, newStock |-> 0,
     alone |-> TRUE, exact |-> TRUE, failed |-> FALSE]

ClampStockOffByOne(stock, quantity) == Max(0, stock - quantity + 1)

ClampStockMissing(stock, quantity) == stock - quantity

\* newStock = Math.max(0, (product?.stock || 0) - item.quantity)
ClampStock(stock, quantity) == Max(0, stock - quantity)

\* orders.select('*, order_items(*)'): every order with its items
SelectOrders ==
    {[id |-> o.id, status |-> o.status, total |-> o.total,
      order_items |-> ItemsOfOrder(o.id)] : o \in orders}

FreeRun ==
    IF \E s \in Slots : adminTasks[s].pc = "idle"
    THEN CHOOSE s \in Slots :
            /\ adminTasks[s].pc = "idle"
            /\ \A t \in Slots : adminTasks[t].pc = "idle" => s <= t
    ELSE 0

\* the admin role is granted or not, and the session has read it
InitRoles(granted) ==
    /\ user_roles = IF granted THEN Admins ELSE {}
    /\ isAdmin = granted
    /\ categories = {"c0"}

InitAdminPage ==
    /\ adminMounted = FALSE
    /\ adminLoading = TRUE
    /\ adminLoads = 0
    /\ adminOrders = {}
    /\ updatingOrderId = NoId
    /\ adminTasks = [s \in Slots |-> NoRun]

\* ---------------------------------------------------------------- Init
InitProducts ==
    [p \in ProductIds |->
        [name |-> p, price |-> IF p = "A" THEN 1000 ELSE 550, stock |-> 3]]

\* the quantities of A in the cart of an earlier visit
EarlierQtys == {1, 2}

\* the store when the tab opens: empty, or holding the owner's cart of an
\* earlier visit with qa units of A and one of B
InitStore(u, returning, qa) ==
    /\ localStorage = IF returning /\ u = NULL THEN SessionToken ELSE NULL
    /\ carts = IF returning THEN {NewCartRow(EarlierCart, u, SessionToken)} ELSE {}
    /\ cart_items =
            IF returning
            THEN {[id |-> EarlierCart + 1, cart_id |-> EarlierCart,
                   product_id |-> "A", quantity |-> qa],
                  [id |-> EarlierCart + 2, cart_id |-> EarlierCart,
                   product_id |-> "B", quantity |-> 1]}
            ELSE {}
    /\ nextId = 1

\* no order yet
NoOrders ==
    /\ orders = {}
    /\ order_items = {}

\* the tabs before their first effect has run
InitTabs ==
    /\ InitCheckoutPage
    /\ InitAdminPage
    /\ mounted = [c \in Clients |-> FALSE]
    /\ items = [c \in Clients |-> {}]
    /\ cartId = [c \in Clients |-> NoId]
    /\ loading = [c \in Clients |-> TRUE]
    /\ tasks = [c \in Clients |-> [s \in Slots |-> Idle]]
    /\ ops = 0
    /\ notices = << >>
    /\ lastGoc = [c \in Clients |-> NoGoc]

Init ==
    /\ \E u \in {NULL} \cup UserIds, returning \in BOOLEAN, qa \in EarlierQtys :
            /\ returning \/ qa = 1
            /\ InitStore(u, returning, qa)
            /\ user = [c \in Clients |-> u]
    /\ products = InitProducts
    /\ NoOrders
    /\ InitTabs
    /\ InitRoles(TRUE)

\* ------------------------------------------------------- CartProvider
\* useEffect(() => { refreshCart(); }, [user]) on mount: refreshCart up to
\* the lookup of getOrCreateCart
Mount(c) ==
    /\ ~mounted[c]
    /\ mounted' = [mounted EXCEPT ![c] = TRUE]
    /\ loading' = [loading EXCEPT ![c] = TRUE]
    /\ localStorage' = GetSessionId(localStorage)
    /\ tasks' = [tasks EXCEPT ![c][1] =
            [Idle EXCEPT !.kind = "refreshCart", !.pc = "lookup", !.in = "refresh",
                         !.user = user[c], !.prevId = PrevGoc(c, user[c])]]
    /\ UNCHANGED <<storeVars, netVars, user, items, cartId, obsVars,
                   orderVars, checkoutVars, adminVars>>

\* addItem(product, quantity) up to its first await
AddItem(c, p, q) ==
    LET s == FreeSlot(c)
        t0 == [Idle EXCEPT !.kind = "addItem", !.in = "add", !.items = items[c],
                           !.cartId = cartId[c], !.user = user[c],
                           !.prod = p, !.qty = q]
        existing == FindItem(items[c], p)
    IN  /\ mounted[c] /\ s # 0 /\ ops < MaxOps
        /\ ops' = ops + 1
        /\ IF cartId[c] # NoId
           THEN /\ localStorage' = localStorage
                /\ tasks' = [tasks EXCEPT ![c][s] =
                      IF existing # NoId
                      THEN [t0 EXCEPT !.id = cartId[c], !.itemId = existing,
                                      !.newQty = ItemQuantity(items[c], existing) + q,
                                      !.pc = IF RemovesItem(ItemQuantity(items[c], existing) + q)
                                             THEN "delete" ELSE "update"]
                      ELSE [t0 EXCEPT !.id = cartId[c], !.pc = "insertItem"]]
           ELSE /\ localStorage' = GetSessionId(localStorage)
                /\ tasks' = [tasks EXCEPT ![c][s] =
                      [t0 EXCEPT !.pc = "lookup", !.prevId = PrevGoc(c, user[c])]]
        /\ UNCHANGED <<storeVars, netVars, mounted, user, items, cartId, loading, notices, lastGoc,
                   orderVars, checkoutVars, adminVars>>

\* removeItem(itemId) up to its await
RemoveItem(c, itemId) ==
    LET s == FreeSlot(c) IN
    /\ mounted[c] /\ s # 0 /\ ops < MaxOps
    /\ ops' = ops + 1
    /\ tasks' = [tasks EXCEPT ![c][s] =
            [Idle EXCEPT !.kind = "removeItem", !.pc = "delete", !.items = items[c],
                         !.itemId = itemId]]
    /\ UNCHANGED <<storeVars, netVars, localStorage, mounted, user, items, cartId, loading,
                   notices, lastGoc,
                   orderVars, checkoutVars, adminVars>>

\* updateQuantity(itemId, quantity) up to its await
UpdateQuantity(c, itemId, q) ==
    LET s == FreeSlot(c) IN
    /\ mounted[c] /\ s # 0 /\ ops < MaxOps
    /\ ops' = ops + 1
    /\ tasks' = [tasks EXCEPT ![c][s] =
            [Idle EXCEPT !.kind = "updateQuantity",
                         !.pc = IF RemovesItem(q) THEN "delete" ELSE "update",
                         !.items = items[c], !.itemId = itemId, !.newQty = q]]
    /\ UNCHANGED <<storeVars, netVars, localStorage, mounted, user, items, cartId, loading,
                   notices, lastGoc,
                   orderVars, checkoutVars, adminVars>>

\* clearCart() up to its await; without a cartId it does nothing
ClearCart(c) ==
    LET s == FreeSlot(c) IN
    /\ mounted[c] /\ s # 0 /\ ops < MaxOps
    /\ cartId[c] # NoId
    /\ ops' = ops + 1
    /\ tasks' = [tasks EXCEPT ![c][s] =
            [Idle EXCEPT !.kind = "clearCart", !.pc = "clear", !.cartId = cartId[c]]]
    /\ UNCHANGED <<storeVars, netVars, localStorage, mounted, user, items, cartId, loading,
                   notices, lastGoc,
                   orderVars, checkoutVars, adminVars>>

\* ------------------------------------------------- steps of the handlers
\* the outcomes of one request: the store executes it (TRUE) or the request
\* fails before that and resolves to { data: null, error }
Outcomes == IF faultBudget > 0 THEN BOOLEAN ELSE {TRUE}

Sent(ok) == faultBudget' = IF ok THEN faultBudget ELSE faultBudget - 1

\* the handler in slot s returns, having raised toast.success ("success"),
\* toast.error ("error") or nothing ("none"); refreshCart run by the effect is
\* not recorded
Notice(c, t, n) ==
    IF t.kind = "refreshCart" THEN notices
    ELSE Append(notices, [c |-> c, kind |-> t.kind, prod |-> t.prod, qty |-> t.qty,
                          itemId |-> t.itemId, newQty |-> t.newQty, notice |-> n])

\* what the caller of updateQuantity(existing.id, existing.quantity + quantity)
\* / of getOrCreateCart does once the cart id is known
AfterCartId(t, id) ==
    LET existing == FindItem(t.items, t.prod) IN
    IF t.in = "refresh"
    THEN [t EXCEPT !.pc = "select", !.id = id]
    ELSE IF existing # NoId
         THEN [t EXCEPT !.id = id, !.itemId = existing,
                        !.newQty = ItemQuantity(t.items, existing) + t.qty,
                        !.pc = IF RemovesItem(ItemQuantity(t.items, existing) + t.qty)
                               THEN "delete" ELSE "update"]
         ELSE [t EXCEPT !.id = id, !.pc = "insertItem"]

\* getOrCreateCart returns id: refreshCart goes on with setCartId(id) and the
\* select, addItem with its branch on items.find
GocReturn(c, s, t, id, created) ==
    /\ lastGoc' = [lastGoc EXCEPT ![c] =
            [owner |-> OwnerKey(t.user, localStorage), id |-> id,
             prevId |-> t.prevId, created |-> created]]
    /\ cartId' = IF t.in = "refresh" THEN [cartId EXCEPT ![c] = id] ELSE cartId
    /\ tasks' = [tasks EXCEPT ![c][s] = AfterCartId(t, id)]
    /\ UNCHANGED <<loading, notices>>

\* getOrCreateCart throws (`if (error) throw error`): refreshCart catches it,
\* logs, and returns normally; addItem's own catch raises toast.error
GocThrow(c, s, t) ==
    /\ tasks' = [tasks EXCEPT ![c][s] = Idle]
    /\ loading' = IF t.in = "refresh" THEN [loading EXCEPT ![c] = FALSE] ELSE loading
    /\ notices' = Notice(c, t, IF t.in = "refresh" THEN "success" ELSE "error")
    /\ UNCHANGED <<cartId, lastGoc>>

\* const { data: existingCart } = await query.maybeSingle()
Lookup(c, s) ==
    LET t == tasks[c][s] IN
    /\ t.pc = "lookup"
    /\ \E ok \in Outcomes :
        /\ Sent(ok)
        /\ LET rows == {r \in SelectCarts(carts, t.user, localStorage) : CartVisible(r, user[c])}
               found == IF ok THEN MaybeSingle(rows) ELSE NoId
           IN  IF found # NoId
               THEN GocReturn(c, s, t, found, FALSE)
               ELSE /\ tasks' = [tasks EXCEPT ![c][s] = [t EXCEPT !.pc = "insert"]]
                    /\ UNCHANGED <<cartId, loading, notices, lastGoc>>
    /\ UNCHANGED <<storeVars, localStorage, mounted, user, items, ops,
                   orderVars, checkoutVars, adminVars>>

\* await supabase.from('carts').insert(...).select('id').single()
InsertCart(c, s) ==
    LET t == tasks[c][s]
        row == NewCartRow(nextId, t.user, localStorage)
    IN
    /\ t.pc = "insert"
    /\ \E ok \in Outcomes :
        /\ Sent(ok)
        /\ IF ok /\ CartInsertAllowed(row, user[c])
           THEN /\ carts' = carts \cup {row}
                /\ nextId' = nextId + 1
                /\ GocReturn(c, s, t, row.id, TRUE)
           ELSE /\ GocThrow(c, s, t)
                /\ UNCHANGED <<carts, nextId>>
    /\ UNCHANGED <<cart_items, products, localStorage, mounted, user, items, ops,
                   orderVars, checkoutVars, adminVars>>

\* await supabase.from('cart_items').select('*, products(*)').eq('cart_id', id),
\* then setItems(data || []) or the catch, then finally setLoading(false);
\* inside addItem, toast.success follows
Select(c, s) ==
    LET t == tasks[c][s] IN
    /\ t.pc = "select"
    /\ \E ok \in Outcomes :
        /\ Sent(ok)
        /\ items' = IF ok
                    THEN [items EXCEPT ![c] =
                           IF CartItemVisible(t.id, user[c]) THEN SelectItems(t.id) ELSE {}]
                    ELSE items
    /\ loading' = [loading EXCEPT ![c] = FALSE]
    /\ notices' = Notice(c, t, "success")
    /\ tasks' = [tasks EXCEPT ![c][s] = Idle]
    /\ UNCHANGED <<storeVars, localStorage, mounted, user, cartId, ops, lastGoc,
                   orderVars, checkoutVars, adminVars>>

\* await supabase.from('cart_items').insert({ cart_id: id, product_id, quantity })
\* (its error is not looked at), then refreshCart() up to the lookup
InsertItem(c, s) ==
    LET t == tasks[c][s]
        row == [id |-> nextId, cart_id |-> t.id, product_id |-> t.prod, quantity |-> t.qty]
    IN
    /\ t.pc = "insertItem"
    /\ \E ok \in Outcomes :
        /\ Sent(ok)
        /\ IF ok /\ CartItemInsertAllowed(row, user[c])
           THEN cart_items' = cart_items \cup {row} /\ nextId' = nextId + 1
           ELSE UNCHANGED <<cart_items, nextId>>
    /\ loading' = [loading EXCEPT ![c] = TRUE]
    /\ tasks' = [tasks EXCEPT ![c][s] =
            [t EXCEPT !.pc = "lookup", !.in = "refresh", !.prevId = PrevGoc(c, t.user)]]
    /\ UNCHANGED <<carts, products, localStorage, mounted, user, items, cartId, obsVars,
                   orderVars, checkoutVars, adminVars>>

\* await supabase.from('cart_items').update({ quantity }).eq('id', itemId)
\* (its error is not looked at), then setItems(items.map(...)); inside addItem,
\* toast.success follows
Update(c, s) ==
    LET t == tasks[c][s]
        visible == \E r \in cart_items : r.id = t.itemId /\ CartItemVisible(r.cart_id, user[c])
    IN
    /\ t.pc = "update"
    /\ \E ok \in Outcomes :
        /\ Sent(ok)
        /\ cart_items' = IF ok /\ visible /\ QuantityCheck(t.newQty)
                         THEN SetQuantity(cart_items, t.itemId, t.newQty)
                         ELSE cart_items
    /\ items' = [items EXCEPT ![c] = SetQuantity(t.items, t.itemId, t.newQty)]
    /\ notices' = Notice(c, t, IF t.kind = "addItem" THEN "success" ELSE "none")
    /\ tasks' = [tasks EXCEPT ![c][s] = Idle]
    /\ UNCHANGED <<carts, products, nextId, localStorage, mounted, user, cartId,
                   loading, ops, lastGoc,
                   orderVars, checkoutVars, adminVars>>

\* await supabase.from('cart_items').delete().eq('id', itemId) (its error is
\* not looked at), then setItems(items.filter(...)) and toast.success
Delete(c, s) ==
    LET t == tasks[c][s]
        visible == \E r \in cart_items : r.id = t.itemId /\ CartItemVisible(r.cart_id, user[c])
    IN
    /\ t.pc = "delete"
    /\ \E ok \in Outcomes :
        /\ Sent(ok)
        /\ cart_items' = IF ok /\ visible THEN DeleteById(cart_items, t.itemId) ELSE cart_items
    /\ items' = [items EXCEPT ![c] = DeleteById(t.items, t.itemId)]
    /\ notices' = Notice(c, t, "success")
    /\ tasks' = [tasks EXCEPT ![c][s] = Idle]
    /\ UNCHANGED <<carts, products, nextId, localStorage, mounted, user, cartId,
                   loading, ops, lastGoc,
                   orderVars, checkoutVars, adminVars>>

\* await supabase.from('cart_items').delete().eq('cart_id', cartId) (its error
\* is not looked at), then setItems([])
Clear(c, s) ==
    LET t == tasks[c][s] IN
    /\ t.pc = "clear"
    /\ \E ok \in Outcomes :
        /\ Sent(ok)
        /\ cart_items' = IF ok /\ CartItemVisible(t.cartId, user[c])
                         THEN DeleteByCart(cart_items, t.cartId) ELSE cart_items
    /\ items' = [items EXCEPT ![c] = {}]
    /\ notices' = Notice(c, t, "none")
    /\ tasks' = [tasks EXCEPT ![c][s] = Idle]
    /\ UNCHANGED <<carts, products, nextId, localStorage, mounted, user, cartId,
                   loading, ops, lastGoc,
                   orderVars, checkoutVars, adminVars>>

\* ------------------------------------------------------ the cart aggregate
CartStep(c) ==
    \E s \in Slots :
        \/ Lookup(c, s)
        \/ InsertCart(c, s)
        \/ Select(c, s)
        \/ InsertItem(c, s)
        \/ Update(c, s)
        \/ Delete(c, s)
        \/ Clear(c, s)

CartCall(c) ==
    \/ \E p \in ProductIds, q \in Qtys : AddItem(c, p, q)
    \/ \E i \in items[c] : RemoveItem(c, i.id)
    \/ \E i \in items[c], q \in NewQtys : UpdateQuantity(c, i.id, q)
    \/ ClearCart(c)

NextCart == \E c \in Clients : Mount(c) \/ CartCall(c) \/ CartStep(c)

\* the cart aggregate with a store that executes every request
InitCart == Init /\ faultBudget = 0

SpecCart == InitCart /\ [][NextCart]_vars

\* the cart aggregate with one request that fails
InitCartFault == Init /\ faultBudget = 1

SpecCartFault == InitCartFault /\ [][NextCart]_vars

\* ----------------------------------------------------- the Checkout page
\* navigation to /checkout (Cart's handleCheckout, or the address bar): a
\* fresh Checkout component
OpenCheckout(c) ==
    /\ mounted[c] /\ page[c] = "shop" /\ checkout[c].pc = "idle"
    /\ page' = [page EXCEPT ![c] = "checkout"]
    /\ step' = [step EXCEPT ![c] = "shipping"]
    /\ processing' = [processing EXCEPT ![c] = FALSE]
    /\ shippingData' = [shippingData EXCEPT ![c] = EmptyShipping]
    /\ paymentMethod' = [paymentMethod EXCEPT ![c] = "card"]
    /\ cardData' = [cardData EXCEPT ![c] = EmptyCard]
    /\ UNCHANGED <<storeVars, orderVars, netVars, cartVars, checkout, placed, obsVars,
                   adminVars, toast>>

\* if (!user) navigate('/auth'); if (items.length === 0 && step !== 'success')
\* navigate('/cart')
GuardRedirect(c) ==
    /\ page[c] = "checkout" /\ ~CheckoutShown(c)
    /\ page' = [page EXCEPT ![c] = "shop"]
    /\ UNCHANGED <<storeVars, orderVars, netVars, cartVars, step, processing, formVars,
                   checkout, placed, obsVars,
                   adminVars, toast>>

\* the buttons that leave the page: "Volver al carrito" on the shipping step,
\* "Ver mis pedidos" and "Seguir comprando" on the success step; the
\* component and its state are gone
Leave(c) ==
    /\ CheckoutShown(c) /\ step[c] \in {"shipping", "success"}
    /\ page' = [page EXCEPT ![c] = "shop"]
    /\ step' = [step EXCEPT ![c] = "shipping"]
    /\ shippingData' = [shippingData EXCEPT ![c] = EmptyShipping]
    /\ paymentMethod' = [paymentMethod EXCEPT ![c] = "card"]
    /\ cardData' = [cardData EXCEPT ![c] = EmptyCard]
    /\ UNCHANGED <<storeVars, orderVars, netVars, cartVars, processing, checkout, placed,
                   obsVars, adminVars, toast>>

\* onChange of a shipping field
SetShippingData(c, f, v) ==
    /\ CheckoutShown(c) /\ step[c] = "shipping"
    /\ shippingData' = [shippingData EXCEPT ![c][f] = v]
    /\ UNCHANGED <<storeVars, orderVars, netVars, cartVars, page, step, processing,
                   paymentMethod, cardData, checkout, placed, obsVars,
                   adminVars, toast>>

\* onValueChange of the payment method
SetPaymentMethod(c, m) ==
    /\ CheckoutShown(c) /\ step[c] = "payment"
    /\ paymentMethod' = [paymentMethod EXCEPT ![c] = m]
    /\ UNCHANGED <<storeVars, orderVars, netVars, cartVars, page, step, processing,
                   shippingData, cardData, checkout, placed, obsVars,
                   adminVars, toast>>

\* onChange of a card field (shown for the card method only)
SetCardData(c, f, v) ==
    /\ CheckoutShown(c) /\ step[c] = "payment" /\ paymentMethod[c] = "card"
    /\ cardData' = [cardData EXCEPT ![c][f] = CardValue(f, v)]
    /\ UNCHANGED <<storeVars, orderVars, netVars, cartVars, page, step, processing,
                   shippingData, paymentMethod, checkout, placed, obsVars,
                   adminVars, toast>>

\* the shipping form is submitted: toast.error('Por favor completa todos los
\* campos requeridos') and return, or setStep('payment')
handleShippingSubmit(c) ==
    /\ CheckoutShown(c) /\ step[c] = "shipping"
    /\ IF ShippingMissing(shippingData[c])
       THEN toast' = [toast EXCEPT ![c] = "shipping"] /\ step' = step
       ELSE step' = [step EXCEPT ![c] = "payment"] /\ toast' = toast
    /\ UNCHANGED <<storeVars, orderVars, netVars, cartVars, page, processing, formVars,
                   checkout, placed, obsVars,
                   adminVars>>

\* the payment form is submitted: toast.error('Por favor completa los datos
\* de la tarjeta') and return, or setStep('confirmation')
handlePaymentSubmit(c) ==
    /\ CheckoutShown(c) /\ step[c] = "payment"
    /\ IF CardMissing(paymentMethod[c], cardData[c])
       THEN toast' = [toast EXCEPT ![c] = "card"] /\ step' = step
       ELSE step' = [step EXCEPT ![c] = "confirmation"] /\ toast' = toast
    /\ UNCHANGED <<storeVars, orderVars, netVars, cartVars, page, processing, formVars,
                   checkout, placed, obsVars,
                   adminVars>>

BackToShipping(c) ==
    /\ CheckoutShown(c)
    /\ \/ step[c] = "payment" /\ step' = [step EXCEPT ![c] = "shipping"]
       \/ step[c] = "confirmation" /\ ~processing[c]
            /\ step' = [step EXCEPT ![c] = "shipping"]
    /\ UNCHANGED <<storeVars, orderVars, netVars, cartVars, page, processing, formVars,
                   checkout, placed, obsVars,
                   adminVars, toast>>

\* the "Atras" buttons: payment -> shipping, and confirmation -> payment
\* (disabled while processing)
Back(c) ==
    /\ CheckoutShown(c)
    /\ \/ step[c] = "payment" /\ step' = [step EXCEPT ![c] = "shipping"]
       \/ step[c] = "confirmation" /\ ~processing[c]
            /\ step' = [step EXCEPT ![c] = "payment"]
    /\ UNCHANGED <<storeVars, orderVars, netVars, cartVars, page, processing, formVars,
                   checkout, placed, obsVars,
                   adminVars, toast>>

\* processOrder up to its first await (the button is disabled while processing)
processOrder(c) ==
    /\ CheckoutShown(c) /\ step[c] = "confirmation" /\ ~processing[c]
    /\ checkout[c].pc = "idle" /\ ops < MaxOps
    /\ ops' = ops + 1
    /\ processing' = [processing EXCEPT ![c] = TRUE]
    /\ checkout' = [checkout EXCEPT ![c] =
            [pc |-> "pay", items |-> items[c], rest |-> items[c],
             total |-> Total(items[c]), user |-> user[c], cartId |-> cartId[c],
             orderId |-> NoId, address |-> shippingData[c].address,
             city |-> shippingData[c].city, method |-> paymentMethod[c],
             notes |-> shippingData[c].notes, failed |-> FALSE]]
    /\ UNCHANGED <<storeVars, orderVars, netVars, cartVars, page, step, formVars,
                   placed, notices, lastGoc,
                   adminVars, toast>>

CheckoutNotice(c, t, n) ==
    Append(notices, [c |-> c, kind |-> "processOrder", prod |-> NULL, qty |-> 0,
                     itemId |-> t.orderId, newQty |-> 0, notice |-> n])

\* processOrder goes on to its next await
Goto(c, t) ==
    /\ checkout' = [checkout EXCEPT ![c] = t]
    /\ UNCHANGED <<items, step, processing, placed, notices, toast>>

\* setStep('success'); toast.success; finally setProcessing(false)
Succeed(c, t, its) ==
    /\ items' = [items EXCEPT ![c] = its]
    /\ step' = [step EXCEPT ![c] = "success"]
    /\ processing' = [processing EXCEPT ![c] = FALSE]
    /\ checkout' = [checkout EXCEPT ![c] = NoCheckout]
    /\ placed' = [placed EXCEPT ![c] = [orderId |-> t.orderId, cartId |-> t.cartId]]
    /\ notices' = CheckoutNotice(c, t, "success")
    /\ toast' = [toast EXCEPT ![c] = "success"]

\* a catch without the finally: processing stays true
FailStillProcessing(c, t) ==
    /\ checkout' = [checkout EXCEPT ![c] = NoCheckout]
    /\ notices' = CheckoutNotice(c, t, "error")
    /\ toast' = [toast EXCEPT ![c] = "error"]
    /\ UNCHANGED <<items, step, placed, processing>>

\* catch: toast.error; finally setProcessing(false)
Fail(c, t) ==
    /\ processing' = [processing EXCEPT ![c] = FALSE]
    /\ checkout' = [checkout EXCEPT ![c] = NoCheckout]
    /\ notices' = CheckoutNotice(c, t, "error")
    /\ toast' = [toast EXCEPT ![c] = "error"]
    /\ UNCHANGED <<items, step, placed>>

\* await clearCart(): with a cartId the delete is awaited; without one
\* clearCart returns at once and leaves the items
CallClearCart(c, t) ==
    IF t.cartId # NoId THEN Goto(c, [t EXCEPT !.pc = "clear"])
    ELSE Succeed(c, t, items[c])

\* await new Promise(resolve => setTimeout(resolve, 2000))
Pay(c) ==
    LET t == checkout[c] IN
    /\ t.pc = "pay"
    /\ Goto(c, [t EXCEPT !.pc = "insertOrder"])
    /\ UNCHANGED <<storeVars, orderVars, netVars, localStorage, mounted, user, cartId,
                   loading, tasks, page, formVars, ops, lastGoc,
                   adminVars>>

\* the row processOrder inserts into orders
NewOrderRow(id, t) ==
    [id |-> id, user_id |-> t.user, total |-> t.total, status |-> "pending",
     shipping_address |-> t.address, shipping_city |-> t.city,
     payment_method |-> t.method, notes |-> IF t.notes = "" THEN NULL ELSE t.notes]

\* subtotal: (item.products?.price || 0) * item.quantity
SubtotalOf(price, quantity) == price * quantity

\* the row processOrder inserts into order_items for a cart item
NewOrderItemRow(id, orderId, item) ==
    [id |-> id, order_id |-> orderId, product_id |-> item.product_id,
     product_name |-> item.products.name, product_price |-> item.products.price,
     quantity |-> item.quantity,
     subtotal |-> SubtotalOf(item.products.price, item.quantity)]

\* await supabase.from('orders').insert({...}).select('id').single();
\* if (orderError) throw orderError
InsertOrder(c) ==
    LET t == checkout[c]
        row == NewOrderRow(nextId, t)
    IN
    /\ t.pc = "insertOrder"
    /\ \E ok \in Outcomes :
        /\ Sent(ok)
        /\ IF ok /\ OrderInsertAllowed(row, user[c])
           THEN /\ orders' = orders \cup {row}
                /\ nextId' = nextId + 1
                /\ IF t.rest = {}
                   THEN CallClearCart(c, [t EXCEPT !.orderId = row.id])
                   ELSE Goto(c, [t EXCEPT !.orderId = row.id, !.pc = "insertOrderItem"])
           ELSE /\ Fail(c, t)
                /\ UNCHANGED <<orders, nextId>>
    /\ UNCHANGED <<carts, cart_items, products, order_items, localStorage, mounted, user,
                   cartId, loading, tasks, page, formVars, ops, lastGoc,
                   adminVars>>

\* an order_items insert that also takes the ordered quantity from the stock
InsertOrderItemDeducting(c) ==
    LET t == checkout[c] IN
    /\ t.pc = "insertOrderItem"
    /\ \E item \in t.rest, ok \in Outcomes :
        LET row == NewOrderItemRow(nextId, t.orderId, item)
            rest == t.rest \ {item}
            stored == ok /\ OrderItemInsertAllowed(row, user[c])
            next == [t EXCEPT !.rest = rest, !.failed = @ \/ ~stored]
        IN
        /\ Sent(ok)
        /\ IF stored
           THEN /\ order_items' = order_items \cup {row} /\ nextId' = nextId + 1
                /\ products' = [products EXCEPT ![item.product_id].stock = @ - item.quantity]
           ELSE UNCHANGED <<order_items, nextId, products>>
        /\ IF rest = {}
           THEN CallClearCart(c, next)
           ELSE Goto(c, next)
    /\ UNCHANGED <<carts, cart_items, orders, localStorage, mounted, user,
                   cartId, loading, tasks, page, formVars, ops, lastGoc,
                   adminVars>>

\* for (const item of items) await supabase.from('order_items').insert({...})
\* (its error is not looked at); after the last item, clearCart is called
InsertOrderItem(c) ==
    LET t == checkout[c] IN
    /\ t.pc = "insertOrderItem"
    /\ \E item \in t.rest, ok \in Outcomes :
        LET row == NewOrderItemRow(nextId, t.orderId, item)
            rest == t.rest \ {item}
            stored == ok /\ OrderItemInsertAllowed(row, user[c])
            \* failed: a record of the model that an insert of this run
            \* returned an error; the code keeps no such record
            next == [t EXCEPT !.rest = rest, !.failed = @ \/ ~stored]
        IN
        /\ Sent(ok)
        /\ IF stored
           THEN order_items' = order_items \cup {row} /\ nextId' = nextId + 1
           ELSE UNCHANGED <<order_items, nextId>>
        /\ IF rest = {}
           THEN CallClearCart(c, next)
           ELSE Goto(c, next)
    /\ UNCHANGED <<carts, cart_items, products, orders, localStorage, mounted, user,
                   cartId, loading, tasks, page, formVars, ops, lastGoc,
                   adminVars>>

\* clearCart inside processOrder: await supabase.from('cart_items').delete()
\* .eq('cart_id', cartId) (its error is not looked at), setItems([]); then
\* setStep('success')
ClearAfterOrder(c) ==
    LET t == checkout[c] IN
    /\ t.pc = "clear"
    /\ \E ok \in Outcomes :
        /\ Sent(ok)
        /\ cart_items' = IF ok /\ CartItemVisible(t.cartId, user[c])
                         THEN DeleteByCart(cart_items, t.cartId) ELSE cart_items
    /\ Succeed(c, t, {})
    /\ UNCHANGED <<carts, products, nextId, orderVars, localStorage, mounted, user,
                   cartId, loading, tasks, page, formVars, ops, lastGoc,
                   adminVars>>

\* ------------------------------------------------- the checkout aggregate
\* refreshCart run by the mount effect
RefreshStep(c) == \E s \in Slots : Lookup(c, s) \/ InsertCart(c, s) \/ Select(c, s)

CheckoutForm(c) ==
    \/ \E f \in ShippingFields : \E v \in ShippingInputs(f) : SetShippingData(c, f, v)
    \/ \E m \in PaymentMethods : SetPaymentMethod(c, m)
    \/ \E f \in CardFields, v \in CardInputs : SetCardData(c, f, v)
    \/ handleShippingSubmit(c)
    \/ handlePaymentSubmit(c)
    \/ Back(c)

CheckoutStep(c) == Pay(c) \/ InsertOrder(c) \/ InsertOrderItem(c) \/ ClearAfterOrder(c)

NextCheckout ==
    \E c \in Clients :
        \/ Mount(c)
        \/ RefreshStep(c)
        \/ OpenCheckout(c)
        \/ GuardRedirect(c)
        \/ Leave(c)
        \/ CheckoutForm(c)
        \/ processOrder(c)
        \/ CheckoutStep(c)

\* the checkout of a signed-in or anonymous visitor, with one request that fails
InitCheckout == Init /\ faultBudget = 1

SpecCheckout == InitCheckout /\ [][NextCheckout]_vars

\* ------------------------------------------- the checkout, store shared
\* the price an administrator saves for a product while the visitor shops
NewPrice == 1200

\* handleSaveProduct of the admin session, for a product being edited with a
\* new price: await products.update(productData).eq('id', editingProduct.id);
\* if (error) throw error; loadData() (the toasts are not recorded). A
\* request of a session that is_admin() rejects updates no row and returns
\* no error
handleSaveProduct(p, price) ==
    /\ ops < MaxOps /\ p \in DOMAIN products /\ price # products[p].price
    /\ ops' = ops + 1
    /\ \E ok \in Outcomes :
        /\ Sent(ok)
        /\ products' = IF ok /\ IsAdmin(AdminId)
                       THEN [products EXCEPT ![p].price = price] ELSE products
        /\ ReloadIf(ok)
    /\ UNCHANGED <<carts, cart_items, nextId, orderVars, cartVars, checkoutVars, roleVars,
                   adminMounted, adminOrders, updatingOrderId, adminTasks, notices, lastGoc>>

\* the "+" button of the Cart page in another tab of the same visitor:
\* updateQuantity(item.id, item.quantity + 1), as the store sees it
OtherTabUpdateQuantity(itemId) ==
    /\ ops < MaxOps
    /\ ops' = ops + 1
    /\ \E r \in cart_items :
        /\ r.id = itemId
        /\ cart_items' = SetQuantity(cart_items, itemId, r.quantity + 1)
    /\ UNCHANGED <<carts, products, nextId, orderVars, netVars, cartVars, checkoutVars,
                   adminVars, notices, lastGoc>>

\* the visitor is looking at the order summary, the cart loaded
Reviewing == \E c \in Clients : CheckoutShown(c) /\ step[c] = "confirmation"

\* the writes of other sessions, taken while the visitor reviews the order
OtherSession ==
    /\ Reviewing /\ ops < MaxOtherWrites
    /\ \/ \E p \in ProductIds : handleSaveProduct(p, NewPrice)
       \/ \E r \in cart_items : OtherTabUpdateQuantity(r.id)

NextCheckoutShared == NextCheckout \/ OtherSession

\* the checkout with other sessions writing to the store, every request
\* executed
InitCheckoutShared == Init /\ faultBudget = 0

SpecCheckoutShared == InitCheckoutShared /\ [][NextCheckoutShared]_vars

\* -------------------------------------------------------- the Admin page
\* the page renders its sections: `loading` has ended
AdminShown == adminMounted /\ ~adminLoading

\* the effect of Admin for a signed-in user who is not an admin:
\* navigate('/'); toast.error('No tienes permisos de administrador')
AdminDenied ==
    /\ ~isAdmin /\ ~adminMounted /\ notices = << >>
    /\ notices' = <<[c |-> 0, kind |-> "Admin", prod |-> NULL, qty |-> 0,
                     itemId |-> NoId, newQty |-> 0, notice |-> "error"]>>
    /\ UNCHANGED <<storeVars, orderVars, netVars, cartVars, checkoutVars, adminVars, ops,
                   lastGoc>>

\* another administrator takes the role away ("Admins can manage roles"); the
\* open session keeps the flag it read
RevokeAdmin ==
    /\ AdminId \in user_roles
    /\ user_roles' = user_roles \ {AdminId}
    /\ UNCHANGED <<storeVars, orderVars, netVars, cartVars, checkoutVars, categories,
                   isAdmin, adminMounted, adminLoading, adminLoads, adminOrders,
                   updatingOrderId, adminTasks, obsVars>>

\* the rows that reference product p and do not let it go: order_items
\* .product_id is NOT NULL with ON DELETE SET NULL
ProductReferenced(p) == \E r \in order_items : r.product_id = p

\* handleDeleteProduct: await products.delete().eq('id', productToDelete.id);
\* if (error) throw error; loadData(). cart_items rows of the product go with
\* it (ON DELETE CASCADE)
handleDeleteProduct(p) ==
    /\ ops < MaxOps /\ p \in DOMAIN products
    /\ ops' = ops + 1
    /\ \E ok \in Outcomes :
        LET seen == ok /\ IsAdmin(AdminId) IN
        /\ Sent(ok)
        /\ IF seen /\ ~ProductReferenced(p)
           THEN /\ products' = [q \in DOMAIN products \ {p} |-> products[q]]
                /\ cart_items' = {r \in cart_items : r.product_id # p}
           ELSE UNCHANGED <<products, cart_items>>
        /\ ReloadIf(ok /\ ~(seen /\ ProductReferenced(p)))
    /\ UNCHANGED <<carts, nextId, orderVars, cartVars, checkoutVars, roleVars,
                   adminMounted, adminOrders, updatingOrderId, adminTasks, notices, lastGoc>>

\* handleSaveCategory for a new category: await categories.insert(categoryData);
\* if (error) throw error; loadData(). An insert that is_admin() rejects
\* returns an error
handleSaveCategory(n) ==
    /\ ops < MaxOps /\ n \notin categories
    /\ ops' = ops + 1
    /\ \E ok \in Outcomes :
        /\ Sent(ok)
        /\ categories' = IF ok /\ IsAdmin(AdminId) THEN categories \cup {n} ELSE categories
        /\ ReloadIf(ok /\ IsAdmin(AdminId))
    /\ UNCHANGED <<storeVars, orderVars, cartVars, checkoutVars, user_roles, isAdmin,
                   adminMounted, adminOrders, updatingOrderId, adminTasks, notices, lastGoc>>

\* handleDeleteCategory: await categories.delete().eq('id', categoryToDelete.id);
\* if (error) throw error; loadData()
handleDeleteCategory(n) ==
    /\ ops < MaxOps /\ n \in categories
    /\ ops' = ops + 1
    /\ \E ok \in Outcomes :
        /\ Sent(ok)
        /\ categories' = IF ok /\ IsAdmin(AdminId) THEN categories \ {n} ELSE categories
        /\ ReloadIf(ok)
    /\ UNCHANGED <<storeVars, orderVars, cartVars, checkoutVars, user_roles, isAdmin,
                   adminMounted, adminOrders, updatingOrderId, adminTasks, notices, lastGoc>>

\* useEffect of Admin with an admin signed in: loadData() up to its await
AdminMount ==
    /\ isAdmin /\ ~adminMounted
    /\ adminMounted' = TRUE
    /\ adminLoading' = TRUE
    /\ adminLoads' = adminLoads + 1
    /\ UNCHANGED <<storeVars, orderVars, netVars, cartVars, checkoutVars, roleVars,
                   adminOrders, updatingOrderId, adminTasks, obsVars>>

\* await Promise.all([...]) of loadData, then setOrders(ordersRes.data || [])
\* and finally setLoading(false)
loadData ==
    /\ adminLoads > 0
    /\ \E ok \in Outcomes :
        /\ Sent(ok)
        /\ adminOrders' = IF ok /\ IsAdmin(AdminId) THEN SelectOrders ELSE {}
    /\ adminLoads' = adminLoads - 1
    /\ adminLoading' = FALSE
    /\ UNCHANGED <<storeVars, orderVars, cartVars, checkoutVars, roleVars, adminMounted,
                   updatingOrderId, adminTasks, obsVars>>

\* a click on "Completar" of a listed order (shown for a pending order,
\* disabled while updatingOrderId is that order): handleCompleteOrder up to its
\* first await
handleCompleteOrder(o) ==
    LET s == FreeRun IN
    /\ adminMounted /\ ~adminLoading /\ s # 0 /\ ops < MaxOps
    /\ o.status = "pending" /\ updatingOrderId # o.id
    /\ ops' = ops + 1
    /\ updatingOrderId' = o.id
    /\ adminTasks' = [adminTasks EXCEPT ![s] =
            [NoRun EXCEPT !.pc = IF o.order_items = {} THEN "status" ELSE "read",
                          !.orderId = o.id, !.rest = o.order_items]]
    /\ UNCHANGED <<storeVars, orderVars, netVars, cartVars, checkoutVars, roleVars, adminMounted,
                   adminLoading, adminLoads, adminOrders, notices, lastGoc>>

AdminNotice(t, n) ==
    Append(notices, [c |-> 0, kind |-> "completeOrder", prod |-> NULL, qty |-> 0,
                     itemId |-> t.orderId, newQty |-> 0, notice |-> n])

\* catch: toast.error; finally setUpdatingOrderId(null)
CompleteThrow(s, t) ==
    /\ adminTasks' = [adminTasks EXCEPT ![s] = NoRun]
    /\ updatingOrderId' = NoId
    /\ notices' = AdminNotice(t, "error")

\* await supabase.from('products').select('stock').eq('id', item.product_id)
\* .single(); if (productError) throw productError; newStock is computed
ReadStock(s) ==
    LET t == adminTasks[s] IN
    /\ t.pc = "read"
    /\ \E item \in t.rest, ok \in Outcomes :
        /\ Sent(ok)
        /\ IF ok /\ item.product_id \in DOMAIN products
           THEN /\ adminTasks' = [adminTasks EXCEPT ![s] =
                        [t EXCEPT !.pc = "write", !.item = item,
                                  !.newStock = ClampStock(products[item.product_id].stock,
                                                          item.quantity)]]
                /\ UNCHANGED <<updatingOrderId, notices>>
           ELSE CompleteThrow(s, t)
    /\ UNCHANGED <<storeVars, orderVars, cartVars, checkoutVars, roleVars, adminMounted,
                   adminLoading, adminLoads, adminOrders, ops, lastGoc>>

\* await supabase.from('products').update({ stock: newStock }).eq('id',
\* item.product_id) (its error is not looked at); then the next item, or the
\* status update after the last one.
\* `exact` records whether every write of the run so far left the stock at
\* max(0, stock before - quantity); `alone` whether no other run wrote
\* meanwhile; `failed` whether a stock update of the run returned an error
WriteStock(s) ==
    LET t == adminTasks[s]
        p == t.item.product_id
        rest == t.rest \ {t.item}
    IN
    /\ t.pc = "write"
    /\ \E ok \in Outcomes :
        LET done == ok /\ IsAdmin(AdminId) /\ p \in DOMAIN products IN
        /\ Sent(ok)
        /\ products' = IF done THEN [products EXCEPT ![p].stock = t.newStock]
                       ELSE products
        /\ adminTasks' = [r \in Slots |->
                IF r = s
                THEN [t EXCEPT !.pc = IF rest = {} THEN "status" ELSE "read",
                               !.rest = rest,
                               !.failed = t.failed \/ ~ok,
                               !.exact = t.exact /\ products'[p].stock =
                                    Max(0, products[p].stock - t.item.quantity)]
                ELSE IF done /\ adminTasks[r].pc # "idle"
                     THEN [adminTasks[r] EXCEPT !.alone = FALSE]
                     ELSE adminTasks[r]]
    /\ UNCHANGED <<carts, cart_items, nextId, orderVars, cartVars, checkoutVars,
                   roleVars, adminMounted, adminLoading, adminLoads, adminOrders,
                   updatingOrderId, obsVars>>

\* orders.update({ status: 'delivered' }).eq('id', order.id)
SetStatusRepriced(rows, orderId, status) ==
    {IF o.id = orderId THEN [o EXCEPT !.status = status, !.total = 0] ELSE o : o \in rows}

\* .update({ status: 'delivered' }).eq('id', order.id)
SetStatus(rows, orderId, status) ==
    {IF o.id = orderId THEN [o EXCEPT !.status = status] ELSE o : o \in rows}

\* await supabase.from('orders').update({ status: 'delivered' }).eq('id',
\* order.id); if (orderError) throw orderError; toast.success; loadData() up
\* to its await; finally setUpdatingOrderId(null)
UpdateStatus(s) ==
    LET t == adminTasks[s] IN
    /\ t.pc = "status"
    /\ \E ok \in Outcomes :
        /\ Sent(ok)
        /\ IF ok
           THEN /\ orders' = IF IsAdmin(AdminId)
                             THEN SetStatus(orders, t.orderId, "delivered") ELSE orders
                /\ notices' = AdminNotice(t, "success")
                /\ adminLoading' = TRUE
                /\ adminLoads' = adminLoads + 1
           ELSE /\ notices' = AdminNotice(t, "error")
                /\ UNCHANGED <<orders, adminLoading, adminLoads>>
    /\ adminTasks' = [adminTasks EXCEPT ![s] = NoRun]
    /\ updatingOrderId' = NoId
    /\ UNCHANGED <<storeVars, order_items, cartVars, checkoutVars, roleVars, adminMounted,
                   adminOrders, ops, lastGoc>>

\* ---------------------------------------------------- order fulfilment
AdminStep == \E s \in Slots : ReadStock(s) \/ WriteStock(s) \/ UpdateStatus(s)

NextAdmin ==
    \/ AdminMount
    \/ loadData
    \/ \E o \in adminOrders : handleCompleteOrder(o)
    \/ AdminStep

OrderQtys == {2, 5}     \* quantities of the order items waiting for fulfilment
EarlierOrder == 200     \* the ids of orders placed earlier start here

\* a cart item as refreshCart loads it
CartItemOf(cid, p, q) ==
    [id |-> NoId, cart_id |-> cid, product_id |-> p, quantity |-> q,
     products |-> InitProducts[p]]

\* the order a checkout of `its` by u leaves: the orders row and its order_items
PlacedOrder(id, u, its) ==
    NewOrderRow(id, [user |-> u, total |-> Total(its), address |-> "x", city |-> "x",
                     method |-> "cash", notes |-> ""])

\* two pending orders of u1: q1 of A and one of B, and q2 of A
PendingOrders(q1, q2) ==
    LET o1 == EarlierOrder + 1
        o2 == EarlierOrder + 2
        a1 == CartItemOf(EarlierCart, "A", q1)
        b1 == CartItemOf(EarlierCart, "B", 1)
        a2 == CartItemOf(EarlierCart, "A", q2)
    IN
    /\ orders = {PlacedOrder(o1, "u1", {a1, b1}), PlacedOrder(o2, "u1", {a2})}
    /\ order_items = {NewOrderItemRow(o1 + 10, o1, a1), NewOrderItemRow(o1 + 11, o1, b1),
                      NewOrderItemRow(o2 + 20, o2, a2)}

\* the admin opens the page with two orders waiting; one request may fail
InitFulfilment ==
    /\ \E q1 \in OrderQtys, q2 \in OrderQtys : PendingOrders(q1, q2)
    /\ InitStore("u1", FALSE, 1)
    /\ user = [c \in Clients |-> "u1"]
    /\ products = InitProducts
    /\ InitTabs

InitAdmin == InitFulfilment /\ InitRoles(TRUE) /\ faultBudget = 1

SpecAdmin == InitAdmin /\ [][NextAdmin]_vars

\* ------------------------------------------- the Admin page and the role
CategoryNames == {"c0", "c1"}

\* the product and category dialogs of the rendered page
AdminCrud ==
    \/ \E p \in ProductIds : AdminShown /\ handleSaveProduct(p, NewPrice)
    \/ \E p \in ProductIds : AdminShown /\ handleDeleteProduct(p)
    \/ \E n \in CategoryNames : AdminShown /\ handleSaveCategory(n)
    \/ \E n \in CategoryNames : AdminShown /\ handleDeleteCategory(n)

NextAdminRoles == NextAdmin \/ AdminDenied \/ RevokeAdmin \/ AdminCrud

\* one pending order of u1: q of A
OnePendingOrder(q) ==
    LET o == EarlierOrder + 2
        a == CartItemOf(EarlierCart, "A", q)
    IN
    /\ orders = {PlacedOrder(o, "u1", {a})}
    /\ order_items = {NewOrderItemRow(o + 20, o, a)}

\* a signed-in user, admin or not, opens /admin with one order waiting; one
\* request may fail
InitAdminRoles ==
    /\ \E q \in OrderQtys : OnePendingOrder(q)
    /\ InitStore("u1", FALSE, 1)
    /\ user = [c \in Clients |-> "u1"]
    /\ products = InitProducts
    /\ InitTabs
    /\ \E granted \in BOOLEAN : InitRoles(granted)
    /\ faultBudget = 1

SpecAdminRoles == InitAdminRoles /\ [][NextAdminRoles]_vars

\* ---------------------------------------- orders already placed, and later
\* ---------------------------------------- operations of the shop and the admin
FilledShipping ==
    [fullName |-> "x", address |-> "x", city |-> "x", phone |-> "", notes |-> ""]

\* the tab has loaded the cart; it shows the shop, or the confirmation step
\* of the Checkout page with the shipping form filled and cash chosen
InitLoadedTab(pg) ==
    /\ page = [c \in Clients |-> pg]
    /\ step = [c \in Clients |-> IF pg = "checkout" THEN "confirmation" ELSE "shipping"]
    /\ processing = [c \in Clients |-> FALSE]
    /\ shippingData =
            [c \in Clients |-> IF pg = "checkout" THEN FilledShipping ELSE EmptyShipping]
    /\ paymentMethod = [c \in Clients |-> IF pg = "checkout" THEN "cash" ELSE "card"]
    /\ cardData = [c \in Clients |-> EmptyCard]
    /\ checkout = [c \in Clients |-> NoCheckout]
    /\ toast = [c \in Clients |-> "none"]
    /\ placed = [c \in Clients |-> NoPlaced]
    /\ mounted = [c \in Clients |-> TRUE]
    /\ items = [c \in Clients |-> SelectItems(EarlierCart)]
    /\ cartId = [c \in Clients |-> EarlierCart]
    /\ loading = [c \in Clients |-> FALSE]
    /\ tasks = [c \in Clients |-> [s \in Slots |-> Idle]]
    /\ ops = 0
    /\ notices = << >>
    /\ lastGoc = [c \in Clients |-> NoGoc]

\* u1 has two pending orders and a cart with one A and one B; an admin is
\* about to open the Admin page; every request is executed
InitOrderHistory ==
    /\ \E q1 \in OrderQtys : PendingOrders(q1, 2)
    /\ InitStore("u1", TRUE, 1)
    /\ user = [c \in Clients |-> "u1"]
    /\ products = InitProducts
    /\ InitAdminPage
    /\ InitRoles(TRUE)
    /\ \E pg \in {"shop", "checkout"} : InitLoadedTab(pg)
    /\ faultBudget = 0

NextOrderHistory ==
    \/ \E c \in Clients : page[c] = "shop" /\ CartCall(c)
    \/ \E c \in Clients : \E s \in Slots :
            \/ Lookup(c, s)
            \/ Select(c, s)
            \/ InsertItem(c, s)
            \/ Update(c, s)
            \/ Delete(c, s)
            \/ Clear(c, s)
    \/ \E c \in Clients : processOrder(c)
    \/ \E c \in Clients : CheckoutStep(c)
    \/ \E c \in Clients : Leave(c)
    \/ NextAdmin
    \/ AdminCrud

SpecOrderHistory == InitOrderHistory /\ [][NextOrderHistory]_vars

\* ------------------------------------------- signing in and out of the shop
\* useAuth() delivers a user: the provider renders again and the effect
\* useEffect(() => { refreshCart(); }, [user]) runs refreshCart, with the new
\* user in its closure, up to the lookup of getOrCreateCart
SignIn(c, u) ==
    LET s == FreeSlot(c) IN
    /\ mounted[c] /\ user[c] = NULL /\ s # 0 /\ ops < MaxOps
    /\ ops' = ops + 1
    /\ user' = [user EXCEPT ![c] = u]
    /\ loading' = [loading EXCEPT ![c] = TRUE]
    /\ localStorage' = GetSessionId(localStorage)
    /\ tasks' = [tasks EXCEPT ![c][s] =
            [Idle EXCEPT !.kind = "refreshCart", !.pc = "lookup", !.in = "refresh",
                         !.user = u, !.prevId = PrevGoc(c, u)]]
    /\ UNCHANGED <<storeVars, netVars, mounted, items, cartId, notices, lastGoc,
                   orderVars, checkoutVars, adminVars>>

\* useAuth() delivers null: the effect runs refreshCart for the anonymous
\* owner
SignOut(c) ==
    LET s == FreeSlot(c) IN
    /\ mounted[c] /\ user[c] # NULL /\ s # 0 /\ ops < MaxOps
    /\ ops' = ops + 1
    /\ user' = [user EXCEPT ![c] = NULL]
    /\ loading' = [loading EXCEPT ![c] = TRUE]
    /\ localStorage' = GetSessionId(localStorage)
    /\ tasks' = [tasks EXCEPT ![c][s] =
            [Idle EXCEPT !.kind = "refreshCart", !.pc = "lookup", !.in = "refresh",
                         !.user = NULL, !.prevId = PrevGoc(c, NULL)]]
    /\ UNCHANGED <<storeVars, netVars, mounted, items, cartId, notices, lastGoc,
                   orderVars, checkoutVars, adminVars>>

UserCart == 110         \* the id of the cart a user filled on another device

\* an anonymous browser that has one A in its cart; the user who will sign
\* in has no cart yet, or one with two A
InitAuth ==
    /\ localStorage = SessionToken
    /\ \E has \in BOOLEAN :
        /\ carts = {NewCartRow(EarlierCart, NULL, SessionToken)}
                    \cup (IF has THEN {NewCartRow(UserCart, "u1", SessionToken)} ELSE {})
        /\ cart_items =
                {[id |-> EarlierCart + 1, cart_id |-> EarlierCart,
                  product_id |-> "A", quantity |-> 1]}
                \cup (IF has THEN {[id |-> UserCart + 1, cart_id |-> UserCart,
                                    product_id |-> "A", quantity |-> 2]}
                      ELSE {})
    /\ nextId = 1
    /\ user = [c \in Clients |-> NULL]
    /\ products = InitProducts
    /\ NoOrders
    /\ InitTabs
    /\ InitRoles(TRUE)
    /\ faultBudget = 0

NextAuth ==
    \/ \E c \in Clients : Mount(c)
    \/ \E c \in Clients : \E u \in UserIds : SignIn(c, u)
    \/ \E c \in Clients : SignOut(c)
    \/ \E c \in Clients : \E p \in ProductIds, q \in Qtys : AddItem(c, p, q)
    \/ \E c \in Clients : \E s \in Slots :
            \/ Lookup(c, s)
            \/ InsertCart(c, s)
            \/ Select(c, s)
            \/ InsertItem(c, s)
            \/ Update(c, s)

SpecAuth == InitAuth /\ [][NextAuth]_vars

\* ------------------------------------- the callers of the cart operations
\* Cart page, the plus button of a row:
\* onClick={() => updateQuantity(item.id, item.quantity + 1)}
\* disabled={item.quantity >= (item.products?.stock || 0)}
PlusButton(c, i) ==
    /\ ~(i.quantity >= i.products.stock)
    /\ UpdateQuantity(c, i.id, i.quantity + 1)

\* Cart page, the minus button of a row:
\* onClick={() => updateQuantity(item.id, item.quantity - 1)}
MinusButton(c, i) == UpdateQuantity(c, i.id, i.quantity - 1)

\* ProductDetail, the values the quantity selector can hold: it starts at 1,
\* minus sets Math.max(1, quantity - 1), plus sets
\* Math.min(product.stock, quantity + 1) and is disabled at the stock
SelectorValues(stock) == 1..stock

\* ProductDetail.handleAddToCart with the selector at q: addItem(product,
\* quantity); the button is disabled when product.stock === 0
ProductDetailAddToCart(c, p, q) ==
    /\ products[p].stock # 0
    /\ q \in SelectorValues(products[p].stock)
    /\ AddItem(c, p, q)

\* ProductCard.handleAddToCart: addItem(product); the button is disabled
\* when product.stock === 0
ProductCardAddToCart(c, p) ==
    /\ products[p].stock # 0
    /\ AddItem(c, p, 1)

NextCallers ==
    \/ \E c \in Clients : Mount(c)
    \/ \E c \in Clients : \E i \in items[c] : PlusButton(c, i)
    \/ \E c \in Clients : \E i \in items[c] : MinusButton(c, i)
    \/ \E c \in Clients : \E p \in ProductIds :
            \E q \in SelectorValues(products[p].stock) : ProductDetailAddToCart(c, p, q)
    \/ \E c \in Clients : \E p \in ProductIds : ProductCardAddToCart(c, p)
    \/ \E c \in Clients : \E s \in Slots :
            \/ Lookup(c, s)
            \/ InsertCart(c, s)
            \/ Select(c, s)
            \/ InsertItem(c, s)
            \/ Update(c, s)
            \/ Delete(c, s)

\* the pages that call the cart, with a store that executes every request
SpecCallers == InitCart /\ [][NextCallers]_vars

\* ------------------------------------ clicks on "Completar" during a run
\* the admin has the two pending orders listed and has clicked "Completar" on
\* the first: its run is at the first stock read; every request is executed
InitAdminClicks ==
    /\ \E q1 \in OrderQtys, q2 \in OrderQtys : PendingOrders(q1, q2)
    /\ InitStore("u1", FALSE, 1)
    /\ user = [c \in Clients |-> "u1"]
    /\ products = InitProducts
    /\ InitCheckoutPage
    /\ mounted = [c \in Clients |-> FALSE]
    /\ items = [c \in Clients |-> {}]
    /\ cartId = [c \in Clients |-> NoId]
    /\ loading = [c \in Clients |-> TRUE]
    /\ tasks = [c \in Clients |-> [s \in Slots |-> Idle]]
    /\ ops = 0
    /\ notices = << >>
    /\ lastGoc = [c \in Clients |-> NoGoc]
    /\ InitRoles(TRUE)
    /\ adminMounted = TRUE
    /\ adminLoading = FALSE
    /\ adminLoads = 0
    /\ adminOrders = SelectOrders
    /\ updatingOrderId = EarlierOrder + 1
    /\ adminTasks = [s \in Slots |->
            IF s = 1
            THEN [NoRun EXCEPT !.pc = "read", !.orderId = EarlierOrder + 1,
                               !.rest = ItemsOfOrder(EarlierOrder + 1)]
            ELSE NoRun]
    /\ faultBudget = 0

NextAdminClicks ==
    \/ loadData
    \/ \E o \in adminOrders : handleCompleteOrder(o)
    \/ AdminStep

SpecAdminClicks == InitAdminClicks /\ [][NextAdminClicks]_vars

\* ================================================================ claims
OwnerOf(row) == IF row.user_id # NULL THEN row.user_id ELSE row.session_id

RowsOf(p) == {r \in cart_items : r.product_id = p}

\* the store held no cart when the tab opened
StartedEmpty == \A r \in carts : r.id < EarlierCart

\* C1: for every (cart, product) pair the store holds at most one cart_items
\* row, whatever addItem, updateQuantity, removeItem and clearCart calls ran
\* or are running.
C1_OneRowPerCartProduct ==
    \A r1 \in cart_items, r2 \in cart_items :
        (r1.cart_id = r2.cart_id /\ r1.product_id = r2.product_id) => r1 = r2

\* two addItem calls for one product both returned with success although the
\* second was issued before the first one's refreshCart had updated `items`:
\* its insert met the row of the first
C1_Witness ==
    /\ Len(notices) = 2 /\ Cardinality(carts) = 1 /\ StartedEmpty
    /\ \A i \in 1..2 : notices[i].kind = "addItem" /\ notices[i].notice = "success"
    /\ notices[1].prod = notices[2].prod
    /\ \E r \in cart_items :
        r.product_id = notices[1].prod /\ r.quantity < notices[1].qty + notices[2].qty

\* C2: when one owner's cart is empty and addItem(p, q1), addItem(p, q2) are
\* the only calls and both report success, the cart holds a single item for p
\* with quantity q1 + q2.
C2_QuantitiesAdd ==
    \A p \in ProductIds :
        ( /\ Quiet /\ ops = 2 /\ Len(notices) = 2
          /\ StartedEmpty /\ Cardinality(carts) = 1
          /\ \A i \in 1..2 : /\ notices[i].kind = "addItem"
                             /\ notices[i].prod = p
                             /\ notices[i].notice = "success" )
        => /\ Cardinality(RowsOf(p)) = 1
           /\ \A r \in RowsOf(p) : r.quantity = notices[1].qty + notices[2].qty

\* C3: a getOrCreateCart call that starts after an earlier call for the same
\* owner key has returned, returns the id the earlier call returned and
\* inserts no carts row.
C3_SameCartTwice ==
    \A c \in Clients :
        lastGoc[c].prevId # NoId =>
            (lastGoc[c].id = lastGoc[c].prevId /\ ~lastGoc[c].created)

\* C4: at most one carts row per owner key.
C4_OneCartPerOwner ==
    \A r1 \in carts, r2 \in carts : OwnerOf(r1) = OwnerOf(r2) => r1 = r2

\* what removeItem(itemId) does when its request returns, for a handler that
\* captured the local list `its`: the row is gone from the store if the store
\* executed the request, no other row is touched, and the local list is `its`
\* without the item
RemoveEffect(c, its, itemId) ==
    /\ cart_items' = IF faultBudget' = faultBudget
                     THEN {r \in cart_items : r.id # itemId} ELSE cart_items
    /\ items'[c] = {i \in its : i.id # itemId}

\* C5: updateQuantity(item, newQty) with newQty <= 0 has the effect of
\* removeItem(item) on the stored rows and on the local list: the row is
\* deleted and no quantity is written.
C5_NonPositiveRemoves ==
    [][\A c \in Clients, s \in Slots :
        ( /\ \/ tasks[c][s].kind = "removeItem"
             \/ (tasks[c][s].kind = "updateQuantity" /\ tasks[c][s].newQty <= 0)
          /\ tasks'[c][s] = Idle )
        => RemoveEffect(c, tasks[c][s].items, tasks[c][s].itemId)]_vars

\* updateQuantity(item, newQty <= 0) returned and the row it named is gone
C5_Witness ==
    \E i \in 1..Len(notices) :
        /\ notices[i].kind = "updateQuantity" /\ notices[i].newQty <= 0
        /\ notices[i].itemId > EarlierCart
        /\ \A r \in cart_items : r.id # notices[i].itemId
        /\ \A c \in Clients : \A r \in items[c] : r.id # notices[i].itemId

\* C6: when the store executes the write of updateQuantity(item, newQty) with
\* newQty > 0, the row's quantity becomes exactly newQty and every other row
\* stays as it was.
C6_SetsExactQuantity ==
    [][\A c \in Clients, s \in Slots :
        ( /\ tasks[c][s].kind = "updateQuantity" /\ tasks[c][s].newQty > 0
          /\ tasks'[c][s] = Idle /\ faultBudget' = faultBudget )
        => /\ {r.id : r \in cart_items'} = {r.id : r \in cart_items}
           /\ \A r \in cart_items, r2 \in cart_items' :
                r.id = r2.id =>
                    IF r.id = tasks[c][s].itemId
                    THEN r2 = [r EXCEPT !.quantity = tasks[c][s].newQty]
                    ELSE r2 = r]_vars

\* updateQuantity(item, 2) returned for a row of quantity 1: the row holds 2
\* and the other row of the cart still holds 1
C6_Witness ==
    \E i \in 1..Len(notices) :
        /\ notices[i].kind = "updateQuantity" /\ notices[i].newQty = 2
        /\ \E r \in cart_items, o \in cart_items :
            /\ r.id = notices[i].itemId /\ r.quantity = 2
            /\ o.id # r.id /\ o.cart_id = r.cart_id /\ o.quantity = 1


OrderOf(id) == CHOOSE o \in orders : o.id = id

\* C7: once a checkout has reached success, the total of the order it created
\* equals the sum of the subtotals of the order_items rows stored for that
\* order, and every stored subtotal equals product_price * quantity.
C7_TotalIsSumOfSubtotals ==
    \A c \in Clients :
        (step[c] = "success" /\ placed[c].orderId # NoId) =>
            LET its == ItemsOfOrder(placed[c].orderId) IN
            /\ OrderOf(placed[c].orderId).total = SumOver(its, [r \in its |-> r.subtotal])
            /\ \A r \in its : r.subtotal = r.product_price * r.quantity

\* C8: whenever a checkout has reached success, the store holds no cart_items
\* row of the cart the order was made from.
C8_CartEmptiedInStore ==
    \A c \in Clients :
        step[c] = "success" => \A r \in cart_items : r.cart_id # placed[c].cartId
\* C9: no product's stock is negative in any reachable state, whatever
\* completeOrder runs ran or are running, for any order-item quantities.
C9_StockNeverNegative == \A p \in DOMAIN products : products[p].stock >= 0

\* an order asking for more units of A than were in stock has been delivered
\* and the stock of A is 0
C9_Witness ==
    \E o \in orders :
        /\ o.status = "delivered"
        /\ \E r \in ItemsOfOrder(o.id) :
            /\ r.product_id = "A" /\ r.quantity > InitProducts["A"].stock
        /\ products["A"].stock = 0

\* the run in slot s reports success in this step
Completes(s) ==
    /\ adminTasks[s].pc = "status" /\ adminTasks'[s].pc = "idle"
    /\ notices' = AdminNotice(adminTasks[s], "success")

\* C10: a completeOrder run that completes without another writer in between
\* has left, for every order item, the product's stock at max(0, stock before
\* that item - quantity); and an order's status changes only in the step after
\* the last item of a run.
C10_CompleteOrderExact ==
    [][/\ \A s \in Slots :
            (Completes(s) /\ adminTasks[s].alone) => adminTasks[s].exact
       /\ \A o \in orders, o2 \in orders' :
            (o.id = o2.id /\ o.status # o2.status) =>
                /\ o2.status = "delivered"
                /\ \E s \in Slots : /\ adminTasks[s].pc = "status"
                                     /\ adminTasks[s].orderId = o.id
                                     /\ adminTasks[s].rest = {}]_vars
\* C11: a submit of the shipping form with an empty full name, address or
\* city leaves the step at shipping; with all three non-empty the step
\* becomes payment, whatever phone and notes hold; no request is sent.
C11_ShippingValidation ==
    [][\A c \in Clients :
        handleShippingSubmit(c) =>
            LET d == shippingData[c] IN
            /\ (d.fullName = "" \/ d.address = "" \/ d.city = "") => step'[c] = "shipping"
            /\ (d.fullName # "" /\ d.address # "" /\ d.city # "") => step'[c] = "payment"
            /\ UNCHANGED <<storeVars, orderVars, netVars>>]_vars

\* a submit was rejected, and a later one passed with phone and notes empty
C11_Witness ==
    \E c \in Clients :
        /\ toast[c] = "shipping" /\ step[c] = "payment"
        /\ shippingData[c].phone = "" /\ shippingData[c].notes = ""
\* C12: a submit of the payment form with the card method moves the step to
\* confirmation exactly when card number, expiry, cvv and cardholder name are
\* all non-empty, and otherwise leaves it at payment; with the cash method it
\* moves to confirmation whatever the card fields hold.
C12_PaymentValidation ==
    [][\A c \in Clients :
        handlePaymentSubmit(c) =>
            LET d == cardData[c]
                filled == d.number # "" /\ d.expiry # "" /\ d.cvv # "" /\ d.name # ""
            IN
            /\ (paymentMethod[c] = "card" /\ ~filled) => step'[c] = "payment"
            /\ (paymentMethod[c] = "card" /\ filled) => step'[c] = "confirmation"
            /\ paymentMethod[c] = "cash" => step'[c] = "confirmation"]_vars

\* a card submit was rejected, and a later cash submit passed with a card
\* field still empty
C12_Witness ==
    \E c \in Clients :
        /\ toast[c] = "card" /\ step[c] = "confirmation"
        /\ paymentMethod[c] = "cash" /\ cardData[c].cvv = ""
\* the changes of step the flow allows
StepChanges ==
    {<<"shipping", "payment">>, <<"payment", "confirmation">>,
     <<"confirmation", "success">>,
     <<"payment", "shipping">>, <<"confirmation", "payment">>}

\* C13: while a Checkout component stays on screen, its step changes only
\* shipping -> payment -> confirmation -> success, or back payment ->
\* shipping and confirmation -> payment.
C13_StepChanges ==
    [][\A c \in Clients :
        (page[c] = "checkout" /\ page'[c] = "checkout" /\ step'[c] # step[c])
            => <<step[c], step'[c]>> \in StepChanges]_vars

\* a submit failed at confirmation, and the visitor went back twice
C13_Witness ==
    \E c \in Clients :
        page[c] = "checkout" /\ toast[c] = "error" /\ step[c] = "shipping"
\* C14: a Checkout component whose step is success keeps that step for as
\* long as it is on screen, and the guards do not redirect it, although the
\* cart it shows is empty.
C14_SuccessIsTerminal ==
    [][\A c \in Clients :
        (page[c] = "checkout" /\ step[c] = "success") =>
            /\ ~GuardRedirect(c)
            /\ page'[c] = "checkout" => step'[c] = "success"]_vars

\* the success step is on screen with an empty cart
C14_Witness ==
    \E c \in Clients :
        /\ page[c] = "checkout" /\ step[c] = "success" /\ items[c] = {}
        /\ toast[c] = "success"
\* C15: every row that enters orders carries the user id of a signed-in
\* visitor whose processOrder run is inserting it, and that visitor's cart
\* holds at least one item, in the list the run captured and on screen.
C15_OrderNeedsUserAndItems ==
    [][\A row \in orders' \ orders :
        \E c \in Clients :
            /\ checkout[c].pc = "insertOrder"
            /\ user[c] # NULL /\ row.user_id = user[c]
            /\ checkout[c].items # {} /\ items[c] # {}]_vars

\* an order of the signed-in visitor is stored and its run goes on to the
\* order items
C15_Witness ==
    \E c \in Clients : \E o \in orders :
        /\ checkout[c].pc = "insertOrderItem" /\ checkout[c].orderId = o.id
        /\ o.user_id = user[c] /\ items[c] # {}
\* C16: a processOrder run in which a request failed (the order insert, an
\* order_items insert or the delete of clearCart) ends without the success
\* step and with the error notice.
C16_FailureIsReported ==
    [][\A c \in Clients :
        (/\ checkout[c].pc # "idle" /\ checkout'[c].pc = "idle"
         /\ checkout[c].failed \/ faultBudget' # faultBudget)
            => step'[c] # "success" /\ toast'[c] = "error"]_vars
\* the rows of cart cid in the store
StoredCart(cid) == {r \in cart_items : r.cart_id = cid}

\* C17: a row that enters orders has status pending, the user id of the
\* visitor whose run inserts it, and a total equal to the sum, over the rows
\* of that visitor's cart in the store at that moment, of the product's
\* stored price times the row's stored quantity.
C17_TotalFromStore ==
    [][\A row \in orders' \ orders :
        \E c \in Clients :
            LET rows == StoredCart(checkout[c].cartId) IN
            /\ checkout[c].pc = "insertOrder"
            /\ row.status = "pending" /\ row.user_id = user[c]
            /\ row.total =
                SumOver(rows, [r \in rows |-> products[r.product_id].price * r.quantity])]_vars
\* C18: a completeOrder run in which a stock read or a stock update failed
\* does not set its order to delivered.
C18_NoDeliveryAfterFailure ==
    [][\A s \in Slots :
        LET t == adminTasks[s] IN
        (t.pc # "idle" /\ (t.failed \/ (t.pc = "read" /\ faultBudget' # faultBudget)))
            => \A o \in orders' :
                (o.id = t.orderId /\ o.status = "delivered") => o \in orders]_vars
\* the units of product p that the stored orders ask for
UnitsOrdered(p) ==
    LET its == {r \in order_items : r.product_id = p} IN
    SumOver(its, [r \in its |-> r.quantity])

\* C19: nothing keeps a second completeOrder run from reading a stock between
\* the read and the write of a first one: a stock update that is executed
\* leaves at least max(0, stock - quantity), exactly that when no other run
\* wrote since this run began, and possibly more otherwise, so that two
\* interleaved runs can end above max(0, initial - q1 - q2).
C19_LostUpdate ==
    [][\A s \in Slots :
        LET t == adminTasks[s] IN
        (t.pc = "write" /\ adminTasks'[s].pc # "write" /\ faultBudget' = faultBudget) =>
            LET p == t.item.product_id
                serial == Max(0, products[p].stock - t.item.quantity)
            IN
            /\ products'[p].stock >= serial
            /\ t.alone => products'[p].stock = serial]_vars

\* every request was executed, both orders are delivered, and the stock of A
\* is higher than the initial stock less the units the two orders asked for
C19_Witness ==
    /\ faultBudget = 1
    /\ Cardinality(orders) = 2 /\ \A o \in orders : o.status = "delivered"
    /\ products["A"].stock > Max(0, InitProducts["A"].stock - UnitsOrdered("A"))
\* C20: every row that getOrCreateCart adds to carts has exactly one of
\* user_id and session_id set.
C20_OneOwnerColumn ==
    [][\A r \in carts' \ carts :
        (r.user_id # NULL) # (r.session_id # NULL)]_vars

\* a signed-in visitor's cart was created: it carries the user id and no
\* session id, although the browser holds a session token
C20_Witness ==
    \E c \in Clients : \E r \in carts :
        /\ r.id # EarlierCart /\ user[c] # NULL /\ localStorage # NULL
        /\ r.user_id = user[c] /\ r.session_id = NULL
\* C21: when the insert or the quantity update that addItem sends fails, the
\* call ends there with the error notice, and neither the stored rows nor
\* the local items change.
C21_AddItemFailureReported ==
    [][\A c \in Clients : \A s \in Slots :
        LET t == tasks[c][s] IN
        (/\ t.kind = "addItem" /\ t.pc \in {"insertItem", "update"}
         /\ tasks'[c][s] # t /\ faultBudget' # faultBudget)
            => /\ cart_items' = cart_items
               /\ items'[c] = items[c]
               /\ notices' = Notice(c, t, "error")]_vars
\* C22: when the delete that removeItem or clearCart sends fails, the local
\* items list is left as it was.
C22_FailedDeleteKeepsItems ==
    [][\A c \in Clients : \A s \in Slots :
        LET t == tasks[c][s] IN
        (/\ t.pc \in {"delete", "clear"}
         /\ tasks'[c][s] # t /\ faultBudget' # faultBudget)
            => items'[c] = items[c]]_vars
\* C23: while the admin session's user does not hold the admin role, none of
\* its handlers changes a product (stock, price, existence), a category or an
\* order.
C23_OnlyAdminsWrite ==
    [][AdminId \notin user_roles => UNCHANGED <<products, categories, orders>>]_vars

\* the role was taken away while the page was open, and a completeOrder run
\* of the session then ended with the success notice and its order pending
C23_Witness ==
    /\ isAdmin /\ AdminId \notin user_roles /\ faultBudget = 1
    /\ products = InitProducts
    /\ \E o \in orders : \E i \in DOMAIN notices :
        /\ o.status = "pending"
        /\ notices[i].kind = "completeOrder" /\ notices[i].itemId = o.id
        /\ notices[i].notice = "success"

\* C24: once an order and its order items exist, no step of the cart, of a
\* checkout, of an admin product or category dialog, or of completeOrder
\* changes the order's owner, total, shipping fields, payment method or
\* notes, nor any of its order items; at most the order's status changes.
C24_PlacedOrdersKeepContents ==
    [][/\ \A o \in orders :
            \E n \in orders' : n.id = o.id /\ [n EXCEPT !.status = o.status] = o
       /\ order_items \subseteq order_items']_vars

\* an order was delivered and the price of one of its products was changed
\* afterwards or before: the order item still carries the price it was
\* bought at
C24_Witness ==
    \E o \in orders : \E r \in order_items :
        /\ o.status = "delivered" /\ r.order_id = o.id
        /\ r.product_id \in DOMAIN products
        /\ products[r.product_id].price # r.product_price
        /\ r.subtotal = SubtotalOf(r.product_price, r.quantity)

StockOf(ps) == [p \in DOMAIN ps |-> ps[p].stock]

\* C25: no step of a cart operation or of a checkout changes a product's
\* stock, and a step that changes a stock or removes a product is a stock
\* write of completeOrder or the product dialog's save or delete.
C25_StockOnlyChangedByAdmin ==
    [][/\ (\E c \in Clients :
                \/ CartCall(c) \/ CartStep(c)
                \/ processOrder(c) \/ CheckoutStep(c) \/ Leave(c))
            => StockOf(products') = StockOf(products)
       /\ StockOf(products') # StockOf(products)
            => \/ \E s \in Slots : WriteStock(s)
               \/ \E p \in ProductIds : handleSaveProduct(p, NewPrice)
               \/ \E p \in ProductIds : handleDeleteProduct(p)]_vars

\* a checkout of this run has created an order with its items, the order is
\* still pending, and every product has the stock it had before
C25_Witness ==
    \E c \in Clients : \E o \in orders : \E r \in order_items :
        /\ o.id < EarlierOrder /\ o.status = "pending" /\ r.order_id = o.id
        /\ step[c] = "success" /\ items[c] = {}
        /\ r.quantity > 0
        /\ StockOf(products) = StockOf(InitProducts)

\* the stored cart_items rows of the carts owned by `key`
RowsOwnedBy(key) ==
    {r \in cart_items : \E k \in carts : k.id = r.cart_id /\ OwnerOf(k) = key}

Shown(its) == {[id |-> i.id, quantity |-> i.quantity] : i \in its}

C27_QuantityWithinStock ==
    \A r \in cart_items :
        r.product_id \in DOMAIN products => r.quantity <= products[r.product_id].stock

\* the units of p that order oid asks for
OrderedQty(oid, p) ==
    LET rows == {r \in order_items : r.order_id = oid /\ r.product_id = p}
    IN  SumOver(rows, [r \in rows |-> r.quantity])

\* the orders for which handleCompleteOrder has run or is running
RunOrders ==
    {adminTasks[s].orderId : s \in {x \in Slots : adminTasks[x].pc # "idle"}}
    \cup {notices[i].itemId : i \in {j \in DOMAIN notices : notices[j].kind = "completeOrder"}}

\* C28: the stock taken from a product is at most the sum of the quantities
\* that the orders handleCompleteOrder ran for ask of it, each order counted
\* once: no order's quantities are deducted twice.
C28_StockDeductedOncePerOrder ==
    \A p \in ProductIds :
        p \in DOMAIN products =>
            InitProducts[p].stock - products[p].stock
                <= SumOver(RunOrders, [o \in RunOrders |-> OrderedQty(o, p)])

\* C29: a processOrder run starts only on the confirmation step with
\* processing false and sets it; processing is true as long as the run is in
\* flight and false once it has ended, by success or by failure; a step
\* inserts at most one order, and only a run that has not inserted one yet;
\* a run that has inserted its order ends on the success step, where no run
\* starts.
C29_OneOrderPerConfirmation ==
    [][\A c \in Clients :
        /\ (checkout[c].pc = "idle" /\ checkout'[c].pc # "idle")
                => ~processing[c] /\ step[c] = "confirmation"
        /\ checkout'[c].pc # "idle" => processing'[c]
        /\ (checkout[c].pc # "idle" /\ checkout'[c].pc = "idle")
                => /\ ~processing'[c]
                   /\ checkout[c].orderId # NoId => step'[c] = "success"
        /\ orders' # orders
                => /\ Cardinality(orders' \ orders) = 1 /\ orders \subseteq orders'
                   /\ checkout[c].pc = "insertOrder" /\ checkout[c].orderId = NoId
        /\ step[c] = "success" => checkout'[c].pc = "idle"]_vars

\* a first run failed, a second one succeeded: one order is stored and
\* processing is false
C29_Witness ==
    \E c \in Clients :
        /\ step[c] = "success" /\ ~processing[c] /\ checkout[c].pc = "idle"
        /\ Cardinality(orders) = 1
        /\ \E i, j \in DOMAIN notices :
            /\ i < j
            /\ notices[i].kind = "processOrder" /\ notices[i].notice = "error"
            /\ notices[j].kind = "processOrder" /\ notices[j].notice = "success"

\* the stored cart with this id
CartById(cid) == CHOOSE k \in carts : k.id = cid

\* C30: a cart_items row that an addItem call inserts or updates is in a
\* cart owned by the owner the call was made for (the user, or the browser's
\* session when anonymous), and whenever no handler is in flight the local
\* cartId is a cart of the current owner and the local items are its rows.
C30_CartOfCurrentOwner ==
    [][\A c \in Clients :
        /\ \A row \in cart_items' \ cart_items :
                \A s \in Slots :
                    (/\ tasks[c][s].kind = "addItem"
                     /\ tasks[c][s].pc \in {"insertItem", "update"}
                     /\ tasks'[c][s] # tasks[c][s])
                        => OwnerOf(CartById(row.cart_id)) =
                                OwnerKey(tasks[c][s].user, localStorage)
        /\ (mounted'[c] /\ \A s \in Slots : tasks'[c][s].kind = "idle")
                => /\ \E k \in carts' :
                        /\ k.id = cartId'[c]
                        /\ OwnerOf(k) = OwnerKey(user'[c], localStorage')
                   /\ \A i \in items'[c] : i.cart_id = cartId'[c]]_vars
====
